---- MODULE Spec2Model ----
(***************************************************************************)
(* Webhook verification, correlation and fulfillment pipeline of the       *)
(* Star-driver bot: the WATA, P2PKassa and PayID19 webhook controllers and *)
(* services, the order registry kept by BotService and the duplicate       *)
(* suppressor kept by KassaWebhookService.                                 *)
(*                                                                         *)
(* Every webhook delivery is a task of the Node.js event loop.  A task     *)
(* runs without interruption between two awaits; the awaits that separate  *)
(* observable effects are the task's program points (pc):                  *)
(*   idle -> verify -> resolve -> buy -> notify -> done                    *)
(***************************************************************************)
EXTENDS Integers, Sequences, FiniteSets, TLC

(* ------------------------------ bounds --------------------------------- *)
MaxTasks == 2
MaxTicks == 2
TickMs == 3600000

(* --------------------------- program constants ------------------------- *)
WEBHOOK_TTL == 60 * 60 * 1000

(* ------------------------------ input sets ----------------------------- *)
Tasks == 1..MaxTasks
None == "<none>"
OrderIds == {"o1"}
NotifIds == {"n1", "n2"}
\* recipient:<handle> tokens of a PayID19 description: the one the bot writes for
\* requester 42 when it creates the invoice, and a foreign one
DescHandles == {"name42", "bob"}

NoOrder == [chatId |-> 0, userId |-> 0, count |-> 0, isGift |-> FALSE, giftUsername |-> None]

Intents ==
  { [chatId |-> 42, userId |-> 42, count |-> 100, isGift |-> FALSE, giftUsername |-> None],
    [chatId |-> 42, userId |-> 42, count |-> 100, isGift |-> TRUE, giftUsername |-> "alice"],
    [chatId |-> 42, userId |-> 42, count |-> 100, isGift |-> TRUE, giftUsername |-> None] }

\* the fields by which the root controller recognises a provider's body
WataFields == {"transactionType", "transactionId", "transactionStatus"}
PayID19Fields == {"id", "order_id", "price_amount", "private_key"}
ProviderFields(prov) ==
  CASE prov = "WATA" -> WataFields
    [] prov = "PayID19" -> PayID19Fields
    [] prov = "Kassa" -> {"id", "order_id"}
    [] OTHER -> {}

\* a request body: fields is the set of its fields that hold a truthy value
Payload(prov, ep, id, order, status, sig, test, desc) ==
  [prov |-> prov, ep |-> ep, id |-> id, order |-> order, status |-> status,
   sig |-> sig, test |-> test, desc |-> desc, fields |-> ProviderFields(prov)]

\* the same request with another set of truthy fields
Body(fields, p) == [p EXCEPT !.fields = fields]

NoPayload == Payload(None, None, None, None, None, None, 0, None)

\* The notification id reaches only the audit records on the WATA and PayID19
\* paths, so one id is enough there; on the Kassa path it is part of the dedup key.
\* <<endpoint, signature, transactionStatus>> of the WATA requests that reach
\* processWebhook: the main endpoint admits a good signature, the legacy and the
\* root endpoint also one the RSA check refuses.
WataRequests ==
  {<<"main", "good", "Paid">>, <<"main", "good", "Declined">>,
   <<"legacy", "bad", "Paid">>, <<"root", "bad", "Paid">>}
WataPayloads ==
  { Payload("WATA", rq[1], "n1", o, rq[3], rq[2], 0, None) :
      rq \in WataRequests, o \in OrderIds }

KassaPayloads ==
  { Payload("Kassa", "main", id, o, "Paid", "good", 0, None) :
      id \in NotifIds, o \in OrderIds }

\* <<private_key, test, recipient token of the description>>; test = 1 skips the
\* private_key comparison
PayID19Requests ==
  {<<"good", 0, None>>, <<"good", 0, "name42">>, <<"good", 0, "bob">>,
   <<"bad", 1, "bob">>}
PayID19Payloads ==
  { Payload("PayID19", "main", "n1", o, "Paid", rq[1], rq[2], rq[3]) :
      rq \in PayID19Requests, o \in OrderIds }

\* authentic notifications of the three providers for one order
MixedPayloads ==
  { Payload("WATA", "main", "n1", o, "Paid", "good", 0, None) : o \in OrderIds }
  \cup { Payload("Kassa", "main", "n1", o, "Paid", "good", 0, None) : o \in OrderIds }
  \cup { Payload("PayID19", "main", "n1", o, "Paid", "good", 0, None) : o \in OrderIds }

\* requests the main endpoints refuse, next to an authentic one
RejectedPayloads ==
  { Payload("WATA", "main", "n1", o, st, "bad", 0, None) :
      st \in {"Paid", "Declined"}, o \in OrderIds }
  \cup { Payload("Kassa", "main", "n1", o, "Paid", "bad", 0, None) : o \in OrderIds }
  \cup { Payload("PayID19", "main", "n1", o, "Paid", "bad", 0, "bob") : o \in OrderIds }
  \cup { Payload("WATA", "main", "n1", o, "Paid", "good", 0, None) : o \in OrderIds }
  \cup { Payload("Kassa", "main", "n1", o, "Paid", "good", 0, None) : o \in OrderIds }

\* PayID19 requests whose private key does not match: without a private_key or
\* an order_id on the PayID19 endpoint, with the test flag on the root path,
\* next to an authentic one on the root path
PassthroughPayloads ==
  { Body(PayID19Fields \ {"private_key"},
         Payload("PayID19", "main", "n1", o, "Paid", "bad", 0, "bob")) : o \in OrderIds }
  \cup { Body(PayID19Fields \ {"order_id"},
              Payload("PayID19", "main", "n1", None, "Paid", "bad", 0, "bob")) }
  \cup { Payload("PayID19", "root", "n1", o, "Paid", sg[1], sg[2], "bob") :
           sg \in {<<"bad", 1>>, <<"good", 0>>}, o \in OrderIds }

\* bodies posted to the root path: sets of truthy fields that make a WATA body,
\* a body of both providers, a PayID19 body with part of a WATA one, and bodies
\* that are complete for neither provider
RootShapes ==
  { <<WataFields, "good">>,
    <<WataFields \cup PayID19Fields, "bad">>,
    <<PayID19Fields \cup {"transactionType", "transactionId"}, "good">>,
    <<{"transactionType", "transactionId", "id", "order_id", "price_amount"}, "good">>,
    <<{}, "good">> }
RootPayloads ==
  { Body(sh[1], Payload("any", "root", "n1", o, "Paid", sh[2], 0, "bob")) :
      sh \in RootShapes, o \in OrderIds }

\* A behaviour draws its deliveries from one family of requests: the processed
\* variants of one provider, the authentic requests of all providers, or the
\* refused ones.
Families == {"WATA", "Kassa", "PayID19", "mixed", "rejected", "passthrough", "root"}
FamilyPayloads(f) ==
  CASE f = "WATA" -> WataPayloads
    [] f = "Kassa" -> KassaPayloads
    [] f = "PayID19" -> PayID19Payloads
    [] f = "mixed" -> MixedPayloads
    [] f = "passthrough" -> PassthroughPayloads
    [] f = "root" -> RootPayloads
    [] OTHER -> RejectedPayloads

Payloads ==
  WataPayloads \cup KassaPayloads \cup PayID19Payloads \cup RejectedPayloads
    \cup PassthroughPayloads \cup RootPayloads

\* verifySignature calls of the WATA signature service taken on its own
MaxCalls == 3
Calls == 1..MaxCalls
\* the X-Signature header: absent, made with the private key that belongs to
\* the served key or to the hardcoded one, made with another key, or one the
\* RSA primitive cannot process
Signatures == {"", "api", "fallback", "bad", "malformed"}
\* the GET of the public key answers a key, answers something that is not a
\* PEM key, or fails
KeyOutcomes == {"api", "notPem", "fail"}
IdleCall ==
  [pc |-> "idle", sig |-> None, seen |-> None, fetched |-> FALSE, used |-> None,
   result |-> None]

(* ------------------------------- state --------------------------------- *)
VARIABLES
  orders,             \* BotService.orders
  usedOrderIds,       \* order identifiers generated so far
  processedWebhooks,  \* KassaWebhookService.processedWebhooks
  now,                \* Date.now()
  task,               \* the webhook deliveries in flight
  hist,               \* the last operations of the component run on its own
  family,             \* the family of requests of this behaviour
  jwtToken,           \* FragmentService.jwtToken
  publicKey,          \* WataSignatureService.publicKey
  verif               \* the WataSignatureService.verifySignature calls in flight

vars == <<orders, usedOrderIds, processedWebhooks, now, task, hist, family,
          jwtToken, publicKey, verif>>

(* ------------------------------- maps ---------------------------------- *)
MapSet(m, k, v) == [x \in DOMAIN m \cup {k} |-> IF x = k THEN v ELSE m[x]]
MapDelete(m, k) == [x \in DOMAIN m \ {k} |-> m[x]]

(* ---------------------------- order registry --------------------------- *)
saveOrderInfo(m, orderId, orderInfo) == MapSet(m, orderId, orderInfo)
getOrderInfo(m, orderId) == IF orderId \in DOMAIN m THEN m[orderId] ELSE NoOrder
\* mutant: the entry is left in place
removeOrderInfoKeeps(m, orderId) == m

\* mutant: the whole registry is emptied
removeOrderInfoClears(m, orderId) == <<>>

removeOrderInfo(m, orderId) == MapDelete(m, orderId)

(* -------------------------- duplicate suppressor ----------------------- *)
\* mutant: the key made of the order id alone
webhookKeyPerOrder(id, orderId) == orderId

webhookKey(id, orderId) == id \o "_" \o orderId

\* mutant: the operands of the age computation swapped
cleanupExpiredWebhooksSwapped(pw, t) ==
  LET expiredKeys == {k \in DOMAIN pw : pw[k].timestamp - t > WEBHOOK_TTL}
  IN  [k \in DOMAIN pw \ expiredKeys |-> pw[k]]

cleanupExpiredWebhooks(pw, t) ==
  LET expiredKeys == {k \in DOMAIN pw : t - pw[k].timestamp > WEBHOOK_TTL}
  IN  [k \in DOMAIN pw \ expiredKeys |-> pw[k]]

isWebhookAlreadyProcessed(pw, t, key) == key \in DOMAIN cleanupExpiredWebhooks(pw, t)

\* mutant: the claim is not recorded
markWebhookAsProcessedNever(pw, t, key, orderId) == pw

markWebhookAsProcessed(pw, t, key, orderId) ==
  MapSet(pw, key, [timestamp |-> t, orderId |-> orderId])

\* processWebhook, lines 29-35 and 51: sweep, look up, insert when absent
claim(pw, t, key, orderId) ==
  LET swept == cleanupExpiredWebhooks(pw, t)
  IN  IF isWebhookAlreadyProcessed(pw, t, key)
      THEN [proceed |-> FALSE, map |-> swept]
      ELSE [proceed |-> TRUE, map |-> markWebhookAsProcessed(swept, t, key, orderId)]

\* processWebhook, line 81
release(pw, key) == MapDelete(pw, key)

(* ------------------------------ events --------------------------------- *)
Ev(e, a, b, c) == [e |-> e, a |-> a, b |-> b, c |-> c]
HasEv(tr, e) == \E i \in 1..Len(tr) : tr[i].e = e
CountEv(tr, e) == Cardinality({i \in 1..Len(tr) : tr[i].e = e})
CountEvA(tr, e, a) == Cardinality({i \in 1..Len(tr) : tr[i].e = e /\ tr[i].a = a})
Bool(b) == IF b THEN "true" ELSE "false"

(* --------------------------- signature checks -------------------------- *)
\* The RSA, SHA-256 and private-key comparisons are abstracted to the sig
\* field of the payload: "good" is a signature the primitive accepts.
wataVerifySignature(sig) == sig = "good"
legacyVerifySignature(sig) == TRUE
verifyWebhookSignature(sig) == sig = "good"
validateWebhook(sig) == sig = "good"
\* mutant: validation skipped on every request
skipValidationAlways(p) == TRUE

\* PayID19WebhookController: test === 1 || !private_key || !order_id
skipValidation(p) ==
  p.test = 1 \/ "private_key" \notin p.fields \/ "order_id" \notin p.fields

\* mutant: the root controller takes every body for a WATA one
rootHandlerWataFirst(fields) == "WATA"

\* RootWebhookController.handleRootWebhook: the handler a body is given to
rootHandler(fields) ==
  IF WataFields \subseteq fields THEN "WATA"
  ELSE IF PayID19Fields \subseteq fields THEN "PayID19"
  ELSE "none"

\* the value the awaited verification call of the endpoint returns
verifyResult(p) ==
  CASE p.prov = "WATA" /\ p.ep = "legacy" -> legacyVerifySignature(p.sig)
    [] p.prov = "WATA" -> wataVerifySignature(p.sig)
    [] p.prov = "Kassa" -> verifyWebhookSignature(p.sig)
    [] OTHER -> validateWebhook(p.sig)

\* whether the controller goes on to processWebhook after the verification
rootAdmits(isValidSignature) == TRUE
\* mutant: every controller goes on whatever the verification returned
admitsAlways(p, isValid) == TRUE

admits(p, isValid) ==
  IF p.prov = "WATA" /\ p.ep = "root" THEN rootAdmits(isValid) ELSE isValid

\* the HTTP status of a rejected request
rejectStatus(p) == IF p.prov = "Kassa" THEN "200" ELSE "400"

\* the HTTP status when an error other than a rejection leaves processWebhook:
\* the WATA and the root controller rethrow it, the PayID19 and the Kassa
\* controller answer it
errorStatus(p) == IF p.prov = "WATA" \/ p.ep = "root" THEN "500" ELSE "200"

\* mutant: the notifier lets a failed sendMessage escape
notifierRaisesOnFailure(sent) == ~sent

\* notifyStarsPurchaseSuccess / notifyStarsPurchaseError catch and log a failed
\* sendMessage
notifierRaises(sent) == FALSE

(* ------------------------------ recipient ------------------------------ *)
\* mutant: the requester id left out of the placeholder
placeholderNoId(userId) == "user_"

placeholder(userId) == "user_" \o ToString(userId)

wataRecipient(oi, username) ==
  IF oi.isGift /\ oi.giftUsername # None THEN oi.giftUsername
  ELSE IF username # None THEN username ELSE placeholder(oi.userId)

\* mutant: the gift handle ignored
kassaRecipientIgnoresGift(oi, username) ==
  IF username # None THEN username ELSE placeholder(oi.userId)

kassaRecipient(oi, username) ==
  IF oi.isGift /\ oi.giftUsername # None THEN oi.giftUsername
  ELSE IF username # None THEN username ELSE placeholder(oi.userId)

payid19Recipient(desc, oi, username) ==
  IF desc # None THEN desc
  ELSE IF oi.isGift /\ oi.giftUsername # None THEN oi.giftUsername
  ELSE IF username # None THEN username ELSE placeholder(oi.userId)

recipientUsername(p, oi, username) ==
  CASE p.prov = "WATA" -> wataRecipient(oi, username)
    [] p.prov = "Kassa" -> kassaRecipient(oi, username)
    [] OTHER -> payid19Recipient(p.desc, oi, username)

\* getUsernameById is awaited only when the recipient is not already known
needsResolve(p, oi) ==
  /\ ~(oi.isGift /\ oi.giftUsername # None)
  /\ ~(p.prov = "PayID19" /\ p.desc # None)

\* what getUserInfo can answer for a requester: a username, or nothing
ResolveResults(userId) == {None, "name" \o ToString(userId)}

showSender(prov) == prov # "WATA"

(* --------------------------- handler events ---------------------------- *)
Audit(status, txId, orderId) == Ev("audit", status, txId, orderId)
Notify(kind, oi, rc) == Ev("notify", kind, rc, ToString(oi.chatId))
BuyCall(p, oi, rc) == Ev("buy", rc, Bool(showSender(p.prov)), ToString(oi.count))

\* mutant: the success path without its notifier call
successEventsSilent(p, oi, rc) ==
  IF p.prov = "Kassa" THEN <<>> ELSE <<Audit("PAID", p.id, p.order)>>

\* after buyStars returned: audit record (not on the Kassa path), then notifier
successEvents(p, oi, rc) ==
  (IF p.prov = "Kassa" THEN <<>> ELSE <<Audit("PAID", p.id, p.order)>>)
    \o <<Notify("success", oi, rc)>>

\* mutant: the failure path without its notifier call
failureEventsSilent(p, oi) ==
  IF p.prov = "Kassa" THEN <<>>
  ELSE <<Audit("PROCESSING_ERROR", p.id, p.order),
         Audit("WEBHOOK_FAILED", p.id \o "_webhook_error", p.order)>>

\* after buyStars threw: audit records (not on the Kassa path), then notifier
failureEvents(p, oi) ==
  (IF p.prov = "Kassa" THEN <<>>
   ELSE <<Audit("PROCESSING_ERROR", p.id, p.order),
          Audit("WEBHOOK_FAILED", p.id \o "_webhook_error", p.order)>>)
    \o <<Notify("error", oi, None)>>

\* mutant: the notifier called whether or not the order is known
declinedEventsAlwaysNotify(p, oi) ==
  <<Audit("DECLINED", p.id, p.order), Notify("error", oi, None)>>

\* handleFailedPayment: one DECLINED record, and the notifier when the order is known
declinedEvents(p, oi) ==
  <<Audit("DECLINED", p.id, p.order)>>
    \o (IF oi # NoOrder THEN <<Notify("error", oi, None)>> ELSE <<>>)

\* mutant: the order kept after a successful purchase
removesAfterSuccessNever(prov) == FALSE

\* whether the order is deleted once the awaited notifier call has returned
removesAfterSuccess(prov) == TRUE
\* mutant: the order deleted after a failed purchase too
removesAfterFailureAlways(prov) == TRUE

removesAfterFailure(prov) == FALSE
removesAfterDecline(prov) == TRUE

\* KassaWebhookService.processWebhook logs the webhook once the handler returned
webhookLogEvents(p) ==
  IF p.prov = "Kassa" THEN <<Audit("WEBHOOK_SUCCESS", p.id, p.order)>> ELSE <<>>

(* --------------------------- FragmentService --------------------------- *)
\* what the order request can answer: an order with success = true, a
\* response with success = false, or an HTTP error status (every error status
\* ends buyStars the same way, with its own message)
FragmentOutcomes == {"ok", "okFalse", "401"}

\* buyStars returns response.data of every answered request, whatever its
\* success field holds, and no handler reads that field
returnsOrder(status) == status \in {"ok", "okFalse"}

\* buyStars sends its POST to order/stars
postOrder(r) ==
  [r EXCEPT !.pc = "buy", !.trace = @ \o <<Ev("post", r.recipient, "", "")>>]

\* buyStars up to its first await: authenticate() when no token is cached
buyStars(r) ==
  IF jwtToken = None
  THEN [r EXCEPT !.pc = "auth", !.trace = @ \o <<Ev("auth", "", "", "")>>]
  ELSE postOrder(r)

\* mutant: the cached token dropped when the API answers 401
tokenAfterErrorCleared(tok, status) == IF status = "401" THEN None ELSE tok

\* the catch block of buyStars leaves this.jwtToken as it is
tokenAfterError(tok, status) == tok

(* ------------------------------- tasks --------------------------------- *)
IdleTask ==
  [pc |-> "idle", p |-> NoPayload, after |-> {}, oi |-> NoOrder, recipient |-> None,
   verified |-> "none", http |-> None, trace |-> <<>>]

Finish(r, evs, status) ==
  [r EXCEPT !.pc = "done", !.trace = r.trace \o evs, !.http = status]

\* the synchronous start of handleSuccessfulPayment, up to its first await
handleSuccessfulPayment(r, m) ==
  LET p == r.p
      oi == getOrderInfo(m, p.order)
  IN  IF oi = NoOrder
      THEN Finish(r, <<Ev("lookup", "absent", "", "")>> \o webhookLogEvents(p), "200")
      ELSE IF needsResolve(p, oi)
      THEN [r EXCEPT !.pc = "resolve", !.oi = oi,
                     !.trace = r.trace \o <<Ev("lookup", "found", "", "")>>]
      ELSE LET rc == recipientUsername(p, oi, None)
           IN  buyStars([r EXCEPT !.oi = oi, !.recipient = rc,
                                  !.trace = r.trace \o <<Ev("lookup", "found", "", ""),
                                                          BuyCall(p, oi, rc)>>])

\* mutant: the order request repeated once after an error answer
purchaseFailedRetries(r, status) ==
  IF CountEv(r.trace, "post") < 2 THEN postOrder(r)
  ELSE [r EXCEPT !.pc = "notify",
                 !.trace = @ \o <<Ev("buyFail", status, "", "")>> \o failureEvents(r.p, r.oi)]

\* buyStars threw: the catch block of handleSuccessfulPayment, up to the
\* awaited notifier call
purchaseFailed(r, status) ==
  [r EXCEPT !.pc = "notify",
            !.trace = @ \o <<Ev("buyFail", status, "", "")>> \o failureEvents(r.p, r.oi)]

\* handleFailedPayment up to the awaited notifier call
handleFailedPayment(r, m) ==
  LET p == r.p
      oi == getOrderInfo(m, p.order)
      tr == <<Ev("lookup", IF oi = NoOrder THEN "absent" ELSE "found", "", "")>>
              \o declinedEvents(p, oi)
  IN  IF oi = NoOrder THEN Finish(r, tr, "200")
      ELSE [r EXCEPT !.pc = "notify", !.oi = oi, !.trace = r.trace \o tr]

\* mutant: every status handled as Paid
isPaidAlways(transactionStatus) == TRUE

isPaid(transactionStatus) == transactionStatus = "Paid"

\* mutant: the duplicate is logged but the handler goes on
duplicateSkipNoReturn(r, m, key) ==
  handleSuccessfulPayment([r EXCEPT !.trace = @ \o <<Ev("dup", key, "", "")>>], m)

\* KassaWebhookService.processWebhook on a key already claimed: log and return
duplicateSkip(r, m, key) == Finish(r, <<Ev("dup", key, "", "")>>, "200")

\* processWebhook of the three services: the new task record and the new
\* contents of processedWebhooks
processWebhook(r0, m, pw, t) ==
  LET p == r0.p
      r == [r0 EXCEPT !.trace = r0.trace \o <<Ev("process", "", "", "")>>]
  IN  CASE p.prov = "WATA" ->
             [rec |-> IF isPaid(p.status) THEN handleSuccessfulPayment(r, m)
                      ELSE handleFailedPayment(r, m),
              pw |-> pw]
        [] p.prov = "Kassa" ->
             LET key == webhookKey(p.id, p.order)
                 c == claim(pw, t, key, p.order)
             IN  IF c.proceed
                 THEN [rec |-> handleSuccessfulPayment(
                                 [r EXCEPT !.trace = r.trace \o <<Ev("claim", key, "", "")>>], m),
                       pw |-> c.map]
                 ELSE [rec |-> duplicateSkip(r, m, key), pw |-> c.map]
        [] OTHER ->
             [rec |-> IF "order_id" \in p.fields THEN handleSuccessfulPayment(r, m)
                      ELSE Finish(r, <<Ev("noOrderId", "", "", "")>>, "200"),
              pw |-> pw]

(* ------------------------------ actions -------------------------------- *)
Init ==
  /\ orders = <<>>
  /\ usedOrderIds = {}
  /\ processedWebhooks = <<>>
  /\ now = 0
  /\ task = [t \in Tasks |-> IdleTask]
  /\ hist = <<>>
  /\ family \in Families
  /\ jwtToken \in {None, "preset"}
  /\ publicKey = None
  /\ verif = [c \in Calls |-> IdleCall]

\* processPayment / sendPaymentOptionsWithDetails: a fresh order id is generated
\* and the order is saved
RegisterOrder(o, info) ==
  /\ o \notin usedOrderIds
  /\ orders' = saveOrderInfo(orders, o, info)
  /\ usedOrderIds' = usedOrderIds \cup {o}
  /\ UNCHANGED <<processedWebhooks, now, task, hist, family, jwtToken, publicKey, verif>>

Done(t) == task[t].pc = "done"

\* a request arrives at a controller; it runs up to the awaited verification,
\* or straight into processWebhook when PayID19 validation is skipped
Deliver(t, p) ==
  /\ task[t].pc = "idle"
  /\ p \in FamilyPayloads(family)
  /\ \A u \in Tasks : u < t => task[u].pc # "idle"
  /\ LET q == IF p.ep = "root" THEN [p EXCEPT !.prov = rootHandler(p.fields)] ELSE p
         r == [IdleTask EXCEPT !.p = q, !.after = {u \in Tasks : Done(u)}]
     IN  IF q.prov = "none"
         THEN /\ task' = [task EXCEPT ![t] = Finish(r, <<Ev("unknown", "", "", "")>>, "200")]
              /\ UNCHANGED processedWebhooks
         ELSE IF q.prov = "PayID19" /\ q.ep = "main" /\ skipValidation(q)
         THEN LET res == processWebhook(r, orders, processedWebhooks, now)
              IN  /\ task' = [task EXCEPT ![t] = res.rec]
                  /\ processedWebhooks' = res.pw
         ELSE /\ task' = [task EXCEPT ![t] = [r EXCEPT !.pc = "verify"]]
              /\ UNCHANGED processedWebhooks
  /\ UNCHANGED <<orders, usedOrderIds, now, hist, family, jwtToken, publicKey, verif>>

\* the verification call returns; the controller rejects or calls processWebhook
VerifyDone(t) ==
  /\ task[t].pc = "verify"
  /\ LET p == task[t].p
         isValid == verifyResult(p)
         r == [task[t] EXCEPT !.verified = Bool(isValid),
                              !.trace = @ \o <<Ev("verify", Bool(isValid), "", "")>>]
     IN  IF admits(p, isValid)
         THEN LET res == processWebhook(r, orders, processedWebhooks, now)
              IN  /\ task' = [task EXCEPT ![t] = res.rec]
                  /\ processedWebhooks' = res.pw
         ELSE /\ task' = [task EXCEPT ![t] = Finish(r, <<Ev("reject", "", "", "")>>, rejectStatus(p))]
              /\ UNCHANGED processedWebhooks
  /\ UNCHANGED <<orders, usedOrderIds, now, hist, family, jwtToken, publicKey, verif>>

\* getUsernameById returns; buyStars is called
ResolveDone(t, username) ==
  /\ task[t].pc = "resolve"
  /\ username \in ResolveResults(task[t].oi.userId)
  /\ LET r == task[t]
         rc == recipientUsername(r.p, r.oi, username)
     IN  task' = [task EXCEPT ![t] =
                    buyStars([r EXCEPT !.recipient = rc,
                                       !.trace = @ \o <<Ev("resolve", username, "", ""),
                                                        BuyCall(r.p, r.oi, rc)>>])]
  /\ UNCHANGED <<orders, usedOrderIds, processedWebhooks, now, hist, family, jwtToken, publicKey, verif>>

\* authenticate() returns with a token, which buyStars then uses for its
\* POST, or throws, which ends buyStars
AuthReturn(t, ok) ==
  /\ task[t].pc = "auth"
  /\ IF ok
     THEN /\ jwtToken' = "acquired"
          /\ task' = [task EXCEPT ![t] = postOrder(task[t])]
     ELSE /\ jwtToken' = jwtToken
          /\ task' = [task EXCEPT ![t] = purchaseFailed(task[t], "auth")]
  /\ UNCHANGED <<orders, usedOrderIds, processedWebhooks, now, hist, family, publicKey, verif>>

\* the POST of buyStars is answered; the handler runs up to the awaited
\* notifier call
BuyReturn(t, status) ==
  /\ task[t].pc = "buy"
  /\ status \in FragmentOutcomes
  /\ LET r == task[t]
     IN  IF returnsOrder(status)
         THEN /\ task' = [task EXCEPT ![t] =
                           [r EXCEPT !.pc = "notify",
                                     !.trace = @ \o <<Ev("buyOk", Bool(status = "ok"), "", "")>>
                                                 \o successEvents(r.p, r.oi, r.recipient)]]
              /\ jwtToken' = jwtToken
         ELSE /\ task' = [task EXCEPT ![t] = purchaseFailed(r, status)]
              /\ jwtToken' = tokenAfterError(jwtToken, status)
  /\ UNCHANGED <<orders, usedOrderIds, processedWebhooks, now, hist, family, publicKey, verif>>

\* sendMessage returns or fails inside the notifier; the handler runs to its end
NotifyReturn(t, sent) ==
  /\ task[t].pc = "notify"
  /\ LET r0 == task[t]
         r == [r0 EXCEPT !.trace = @ \o <<Ev("notified", Bool(sent), "", "")>>]
         p == r.p
         removes == IF HasEv(r.trace, "buyOk") THEN removesAfterSuccess(p.prov)
                    ELSE IF HasEv(r.trace, "buyFail") THEN removesAfterFailure(p.prov)
                    ELSE removesAfterDecline(p.prov)
         evs == (IF HasEv(r.trace, "buyOk") /\ p.prov # "Kassa"
                 THEN <<Audit("WEBHOOK_SUCCESS", p.id \o "_webhook", p.order)>> ELSE <<>>)
                \o (IF removes THEN <<Ev("remove", p.order, "", "")>> ELSE <<>>)
                \o (IF p.status = "Paid" THEN webhookLogEvents(p) ELSE <<>>)
     IN  IF notifierRaises(sent)
         THEN /\ task' = [task EXCEPT ![t] = Finish(r, <<Ev("raise", "", "", "")>>, errorStatus(p))]
              /\ UNCHANGED orders
         ELSE /\ task' = [task EXCEPT ![t] = Finish(r, evs, "200")]
              /\ orders' = IF removes THEN removeOrderInfo(orders, p.order) ELSE orders
  /\ UNCHANGED <<usedOrderIds, processedWebhooks, now, hist, family, jwtToken, publicKey, verif>>

\* time passes between two readings of Date.now()
Elapse ==
  /\ now < MaxTicks * TickMs
  /\ DOMAIN processedWebhooks # {}
  /\ now' = now + TickMs
  /\ UNCHANGED <<orders, usedOrderIds, processedWebhooks, task, hist, family, jwtToken, publicKey, verif>>

\* Date.now() is read only by the duplicate suppressor, at the start of
\* KassaWebhookService.processWebhook, so the clock is advanced only while a
\* Kassa delivery is about to enter it.
Tick ==
  /\ \E t \in Tasks : task[t].pc = "verify" /\ task[t].p.prov = "Kassa"
  /\ Elapse

Next ==
  \/ \E o \in OrderIds, info \in Intents : RegisterOrder(o, info)
  \/ \E t \in Tasks, p \in Payloads : Deliver(t, p)
  \/ \E t \in Tasks : VerifyDone(t)
  \/ \E t \in Tasks, u \in {None} \cup {"name42"} : ResolveDone(t, u)
  \/ \E t \in Tasks, ok \in BOOLEAN : AuthReturn(t, ok)
  \/ \E t \in Tasks, status \in FragmentOutcomes : BuyReturn(t, status)
  \/ \E t \in Tasks, sent \in BOOLEAN : NotifyReturn(t, sent)
  \/ Tick

Spec == Init /\ [][Next]_vars

TypeOK ==
  /\ DOMAIN orders \subseteq {"o1", "o2", "o3"}
  /\ \A t \in Tasks : task[t].pc \in {"idle", "verify", "resolve", "auth", "buy", "notify", "done"}

(* ----------------- every outbound call returns or fails ---------------- *)
\* The provider learns an order id from the payment the bot creates after it
\* has saved the order, so a delivery names an order id already generated.
DeliverKnown(t, p) == p.order \in usedOrderIds /\ Deliver(t, p)

NextLive ==
  \/ \E o \in OrderIds, info \in Intents : RegisterOrder(o, info)
  \/ \E t \in Tasks, p \in Payloads : DeliverKnown(t, p)
  \/ \E t \in Tasks : VerifyDone(t)
  \/ \E t \in Tasks, u \in {None} \cup {"name42"} : ResolveDone(t, u)
  \/ \E t \in Tasks, ok \in BOOLEAN : AuthReturn(t, ok)
  \/ \E t \in Tasks, status \in FragmentOutcomes : BuyReturn(t, status)
  \/ \E t \in Tasks, sent \in BOOLEAN : NotifyReturn(t, sent)
  \/ Tick

\* each awaited call of each delivery eventually returns or fails
CallsReturn ==
  \A t \in Tasks :
    /\ WF_vars(VerifyDone(t))
    /\ WF_vars(\E u \in {None} \cup {"name42"} : ResolveDone(t, u))
    /\ WF_vars(\E ok \in BOOLEAN : AuthReturn(t, ok))
    /\ WF_vars(\E status \in FragmentOutcomes : BuyReturn(t, status))
    /\ WF_vars(\E sent \in BOOLEAN : NotifyReturn(t, sent))

SpecLive == Init /\ [][NextLive]_vars /\ CallsReturn

(* ------------------- the Duplicate Suppressor on its own --------------- *)
DedupKeys == {webhookKey(id, o) : id \in NotifIds, o \in OrderIds}

Last2(h) == IF Len(h) > 2 THEN SubSeq(h, Len(h) - 1, Len(h)) ELSE h

\* whether key has no record, or one older than the TTL
Fresh(pw, t, key) == key \notin DOMAIN pw \/ t - pw[key].timestamp > WEBHOOK_TTL

Claim(key) ==
  /\ LET c == claim(processedWebhooks, now, key, "o1")
     IN  /\ processedWebhooks' = c.map
         /\ hist' = Last2(Append(hist,
                      [op |-> "claim", key |-> key, at |-> now,
                       res |-> IF c.proceed THEN "proceed" ELSE "skip",
                       fresh |-> Fresh(processedWebhooks, now, key)]))
  /\ UNCHANGED <<orders, usedOrderIds, now, task, family, jwtToken, publicKey, verif>>

Release(key) ==
  /\ processedWebhooks' = release(processedWebhooks, key)
  /\ hist' = Last2(Append(hist,
               [op |-> "release", key |-> key, at |-> now, res |-> "", fresh |-> FALSE]))
  /\ UNCHANGED <<orders, usedOrderIds, now, task, family, jwtToken, publicKey, verif>>

InitDedup == Init /\ family = "Kassa"

NextDedup ==
  \/ \E k \in DedupKeys : Claim(k)
  \/ \E k \in DedupKeys : Release(k)
  \/ Elapse

SpecDedup == InitDedup /\ [][NextDedup]_vars

(* ---------------------- the Order Registry on its own ------------------ *)
RegistryIds == {"o1", "o2", "o3"}

Save(o, info) ==
  /\ orders' = saveOrderInfo(orders, o, info)
  /\ hist' = Last2(Append(hist, [op |-> "save", key |-> o, before |-> orders,
                                  after |-> saveOrderInfo(orders, o, info)]))
  /\ UNCHANGED <<usedOrderIds, processedWebhooks, now, task, family, jwtToken, publicKey, verif>>

Remove(o) ==
  /\ orders' = removeOrderInfo(orders, o)
  /\ hist' = Last2(Append(hist, [op |-> "remove", key |-> o, before |-> orders,
                                  after |-> removeOrderInfo(orders, o)]))
  /\ UNCHANGED <<usedOrderIds, processedWebhooks, now, task, family, jwtToken, publicKey, verif>>

InitRegistry == Init /\ family = "WATA"

NextRegistry ==
  \/ \E o \in RegistryIds, info \in Intents : Save(o, info)
  \/ \E o \in RegistryIds : Remove(o)

SpecRegistry == InitRegistry /\ [][NextRegistry]_vars

(* ----------------- the WATA signature service on its own --------------- *)
\* mutant: a missing signature is verified like any other
missingSignatureIgnored(signature) == FALSE

\* verifySignature: if (!signature) return false
missingSignature(signature) == signature = ""

\* publicKey.verify: whether the signature was made with the key pair of key;
\* a signature the primitive cannot process makes it throw
rsaVerify(key, signature) ==
  IF signature = "malformed" THEN "throw" ELSE Bool(signature = key)

\* the try/catch of verifySignature turns every error into false
caught(outcome) == IF outcome = "throw" THEN "false" ELSE outcome

\* the rest of verifySignature once getPublicKey returned key
verifyWith(call, key) ==
  [call EXCEPT !.pc = "done", !.used = key, !.result = caught(rsaVerify(key, call.sig))]

\* the PEM text getPublicKey loads: the served one, or the hardcoded one when
\* the GET failed
pemOf(outcome) == IF outcome = "fail" THEN "fallback" ELSE outcome

\* verifySignature up to the awaited GET of getPublicKey, or to its end when
\* the signature is missing or a key is cached
VerifyStart(c, signature) ==
  /\ verif[c].pc = "idle"
  /\ \A d \in Calls : d < c => verif[d].pc # "idle"
  /\ signature \in Signatures
  /\ LET call == [IdleCall EXCEPT !.sig = signature, !.seen = publicKey]
     IN  verif' = [verif EXCEPT ![c] =
           IF missingSignature(signature)
           THEN [call EXCEPT !.pc = "done", !.result = "false"]
           ELSE IF publicKey # None THEN verifyWith(call, publicKey)
           ELSE [call EXCEPT !.pc = "fetch", !.fetched = TRUE]]
  /\ UNCHANGED <<orders, usedOrderIds, processedWebhooks, now, task, hist, family,
                 jwtToken, publicKey>>

\* the GET returns or fails; getPublicKey loads the key into this.publicKey,
\* or throws when the text is not a key, and verifySignature runs to its end
KeyReturn(c, outcome) ==
  /\ verif[c].pc = "fetch"
  /\ outcome \in KeyOutcomes
  /\ IF pemOf(outcome) = "notPem"
     THEN /\ verif' = [verif EXCEPT ![c] =
                         [@ EXCEPT !.pc = "done", !.result = caught("throw")]]
          /\ UNCHANGED <<publicKey, hist>>
     ELSE /\ publicKey' = pemOf(outcome)
          /\ hist' = Append(hist, pemOf(outcome))
          /\ verif' = [verif EXCEPT ![c] = verifyWith(@, pemOf(outcome))]
  /\ UNCHANGED <<orders, usedOrderIds, processedWebhooks, now, task, family, jwtToken>>

InitWataKey == Init /\ family = "WATA" /\ jwtToken = None

NextWataKey ==
  \/ \E c \in Calls, signature \in Signatures : VerifyStart(c, signature)
  \/ \E c \in Calls, outcome \in KeyOutcomes : KeyReturn(c, outcome)

SpecWataKey == InitWataKey /\ [][NextWataKey]_vars

(* ---------------- the Kassa signature service on its own --------------- *)
\* Numbers are held in thousandths: 10500 is the JavaScript number 10.5.
\* NoNumber is a numeric field that is not in the body, None a string field
\* that is not.
NoNumber == -1
apiKey == "K"

\* a text of hexadecimal digits: what it spells, and the case of its letters;
\* case "number" is a JSON number in place of the text
Hex(text, case) == [text |-> text, case |-> case]

\* createHash('sha256').update(s).digest('hex'): lower-case digits; two texts
\* have the same digest only when they are the same text
sha256hex(s) == Hex(s, "lower")

\* String.prototype.toLowerCase on a text of hexadecimal digits
toLowerCase(h) == [h EXCEPT !.case = "lower"]

Pad2(n) == IF n < 10 THEN "0" \o ToString(n) ELSE ToString(n)
Pad3(n) == IF n < 10 THEN "00" \o ToString(n) ELSE IF n < 100 THEN "0" \o ToString(n) ELSE ToString(n)

\* a number as a template literal prints it
numberText(n) ==
  ToString(n \div 1000) \o
    (IF n % 1000 = 0 THEN ""
     ELSE "." \o (IF n % 100 = 0 THEN ToString((n % 1000) \div 100)
                  ELSE IF n % 10 = 0 THEN Pad2((n % 1000) \div 10)
                  ELSE Pad3(n % 1000)))

\* mutant: the amount written as JavaScript prints a number
toFixed2Raw(n) == numberText(n)

\* parseFloat(amount).toFixed(2): rounded to hundredths, two decimals always
toFixed2(n) ==
  LET cents == (n + 5) \div 10
  IN  ToString(cents \div 100) \o "." \o Pad2(cents % 100)

\* !x for the fields of the body
falsyText(v) == v \in {None, ""}
falsyNumber(n) == n \in {NoNumber, 0}
falsySign(h) == h.case # "number" /\ h.text \in {None, ""}

stringToSign(b) ==
  apiKey \o b.id \o b.order_id \o numberText(b.project_id) \o toFixed2(b.amount) \o b.currency

\* expectedSign.toLowerCase() === sign.toLowerCase()
sameSign(expectedSign, sign) == toLowerCase(expectedSign) = toLowerCase(sign)

\* KassaSignatureService.verifyWebhookSignature: its value, and whether a
\* digest was computed; toLowerCase of a sign that is no string throws, and
\* the catch block returns false
kassaVerify(b) ==
  IF falsyText(b.id) \/ falsyText(b.order_id) \/ falsyNumber(b.project_id)
       \/ falsyNumber(b.amount) \/ falsyText(b.currency) \/ falsySign(b.sign)
  THEN [valid |-> FALSE, hashed |-> FALSE]
  ELSE LET expectedSign == sha256hex(stringToSign(b))
       IN  [valid |-> IF b.sign.case = "number" THEN FALSE ELSE sameSign(expectedSign, b.sign),
            hashed |-> TRUE]

\* the amounts of the bodies, and how the provider writes each in the string
\* it signs: with two decimals
Amounts == {0, 10000, 10500, 9996}
ProviderAmount(n) ==
  CASE n = 10000 -> "10.00"
    [] n = 10500 -> "10.50"
    [] n = 9996 -> "10.00"
    [] OTHER -> "0.00"

\* SHA256(apikey + id + order_id + project_id + amount + currency), as the
\* provider computes it
ProviderString(b) ==
  apiKey \o b.id \o b.order_id \o ToString(b.project_id \div 1000)
    \o ProviderAmount(b.amount) \o b.currency

\* the signs tried for a body: none, an empty one, the provider's digest in
\* lower and in upper case, the digest of the string with the amount as
\* JavaScript prints it, another digest, and a number
SignKinds == {"absent", "empty", "lower", "upper", "raw", "other", "number"}
signOf(kind, b) ==
  CASE kind = "absent" -> Hex(None, "lower")
    [] kind = "empty" -> Hex("", "lower")
    [] kind = "lower" -> Hex(ProviderString(b), "lower")
    [] kind = "upper" -> Hex(ProviderString(b), "upper")
    [] kind = "raw" ->
         Hex(apiKey \o b.id \o b.order_id \o numberText(b.project_id)
               \o numberText(b.amount) \o b.currency, "lower")
    [] kind = "other" -> Hex("x", "lower")
    [] OTHER -> Hex("1", "number")

KassaBodies ==
  { [id |-> id, order_id |-> o, project_id |-> pr, amount |-> am, currency |-> cu,
     sign |-> Hex(None, "lower")] :
      id \in {None, "", "p1"}, o \in {None, "o1"}, pr \in {NoNumber, 0, 7000},
      am \in {NoNumber} \cup Amounts, cu \in {None, "RUB"} }

\* one verification of one body
VerifyKassa(b0, kind) ==
  /\ hist = <<>>
  /\ LET b == [b0 EXCEPT !.sign = signOf(kind, b0)]
     IN  hist' = <<[body |-> b, kind |-> kind, res |-> kassaVerify(b)]>>
  /\ UNCHANGED <<orders, usedOrderIds, processedWebhooks, now, task, family,
                 jwtToken, publicKey, verif>>

InitKassaSig == Init /\ family = "Kassa" /\ jwtToken = None

NextKassaSig == \E b \in KassaBodies, kind \in SignKinds : VerifyKassa(b, kind)

SpecKassaSig == InitKassaSig /\ [][NextKassaSig]_vars

(* ------------------- the quantity dialogue of the bot ------------------ *)
\* the longest text typed, and the characters it is made of
MaxText == 5
Chars == {"0", "1", "5", ".", "-", "x"}
Texts == UNION {[1..n -> Chars] : n \in 0..MaxText}

\* star.constants.ts
MIN_STARS == 100

\* A quantity is held in ten-thousandths: Unit is the JavaScript number 1.
Unit == 10000

IsDigits(s) == \A i \in 1..Len(s) : s[i] \in {"0", "1", "5"}
DigitVal(c) == CASE c = "0" -> 0 [] c = "1" -> 1 [] OTHER -> 5
RECURSIVE DigitsValue(_)
DigitsValue(s) ==
  IF s = <<>> THEN 0
  ELSE 10 * DigitsValue(SubSeq(s, 1, Len(s) - 1)) + DigitVal(s[Len(s)])
RECURSIVE Pow10(_)
Pow10(n) == IF n = 0 THEN 1 ELSE 10 * Pow10(n - 1)

NaN == [nan |-> TRUE, v |-> 0]
Num(v) == [nan |-> FALSE, v |-> v]

\* Number(text) on texts of these characters: the empty text is 0, an
\* optional minus, then digits, digits with a decimal point, or a decimal
\* point with digits after it; anything else is NaN
Number(text) ==
  LET neg == Len(text) > 0 /\ text[1] = "-"
      body == IF neg THEN Tail(text) ELSE text
      dots == {i \in 1..Len(body) : body[i] = "."}
      sign == IF neg THEN -1 ELSE 1
  IN  IF text = <<>> THEN Num(0)
      ELSE IF body = <<>> THEN NaN
      ELSE IF dots = {}
      THEN IF IsDigits(body) THEN Num(sign * DigitsValue(body) * Unit) ELSE NaN
      ELSE IF Cardinality(dots) = 1
      THEN LET d == CHOOSE i \in dots : TRUE
               int == SubSeq(body, 1, d - 1)
               frac == SubSeq(body, d + 1, Len(body))
           IN  IF IsDigits(int) /\ IsDigits(frac) /\ Len(int) + Len(frac) > 0
               THEN Num(sign * (DigitsValue(int) * Unit
                                  + (DigitsValue(frac) * Unit) \div Pow10(Len(frac))))
               ELSE NaN
      ELSE NaN

\* processBuyFlow / processGiftFlow: isNaN(count) || count < MIN_STARS refuses
acceptsCount(count) == ~(count.nan \/ count.v < MIN_STARS * Unit)

BotOrderIds == {"o1", "o2"}
NoSession == [flow |-> "none", step |-> "none", count |-> 0]
PaymentChoices == {"CRYPTO", "SBP", "other"}
MaxFlows == 1

\* the dialogue of the one requester: the session, the order ids whose payment
\* links are being created by sendPaymentOptionsWithDetails, the order ids
\* for which a payment option was sent to the requester, and the number of
\* flows started so far
Bot(session, pending, presented, flows) ==
  <<[session |-> session, pending |-> pending, presented |-> presented, flows |-> flows]>>
session(h) == IF h = <<>> THEN NoSession ELSE h[1].session
pending(h) == IF h = <<>> THEN {} ELSE h[1].pending
presented(h) == IF h = <<>> THEN {} ELSE h[1].presented
flows(h) == IF h = <<>> THEN 0 ELSE h[1].flows

\* the requester presses Buy or Gift (and, for a gift, has named the
\* recipient): the dialogue waits for the quantity
StartFlow(flow) ==
  /\ session(hist) = NoSession
  /\ flows(hist) < MaxFlows
  /\ hist' = Bot([flow |-> flow, step |-> "count", count |-> 0], pending(hist), presented(hist),
                 flows(hist) + 1)
  /\ UNCHANGED <<orders, usedOrderIds, processedWebhooks, now, task, family,
                 jwtToken, publicKey, verif>>

\* handleMessage at the quantity step: the text is refused, or the balance
\* check refuses the quantity, or the quantity is put into the session and
\* sendPaymentOptionsWithDetails saves the order and starts to create the links
CountMessage(text, sufficient, o) ==
  /\ session(hist).step = "count"
  /\ o \in BotOrderIds \ usedOrderIds
  /\ LET count == Number(text)
     IN  IF acceptsCount(count) /\ sufficient
         THEN /\ hist' = Bot([session(hist) EXCEPT !.count = count.v, !.step = "pay"],
                             pending(hist) \cup {o}, presented(hist), flows(hist))
              /\ orders' = saveOrderInfo(orders, o,
                              [chatId |-> 42, userId |-> 42, count |-> count.v,
                               isGift |-> session(hist).flow = "gift",
                               giftUsername |-> IF session(hist).flow = "gift" THEN "alice" ELSE None])
              /\ usedOrderIds' = usedOrderIds \cup {o}
         ELSE UNCHANGED <<hist, orders, usedOrderIds>>
  /\ UNCHANGED <<processedWebhooks, now, task, family, jwtToken, publicKey, verif>>

\* sendPaymentOptionsWithDetails after Promise.all: the links are sent to the
\* requester, or their creation failed and the requester is told to try later;
\* the session is deleted either way
LinksReturn(o, created) ==
  /\ o \in pending(hist)
  /\ hist' = Bot(NoSession, pending(hist) \ {o},
                 IF created THEN presented(hist) \cup {o} ELSE presented(hist), flows(hist))
  /\ UNCHANGED <<orders, usedOrderIds, processedWebhooks, now, task, family,
                 jwtToken, publicKey, verif>>

\* handleMessage at the payment step: processPayment saves an order with the
\* quantity of the session under a new identifier, then creates the link of
\* the chosen method; the session is deleted on every path
PayMessage(o, choice, created) ==
  /\ session(hist).step = "pay"
  /\ o \in BotOrderIds \ usedOrderIds
  /\ orders' = saveOrderInfo(orders, o,
                 [chatId |-> 42, userId |-> 42, count |-> session(hist).count,
                  isGift |-> session(hist).flow = "gift",
                  giftUsername |-> IF session(hist).flow = "gift" THEN "alice" ELSE None])
  /\ usedOrderIds' = usedOrderIds \cup {o}
  /\ hist' = Bot(NoSession, pending(hist),
                 IF choice \in {"CRYPTO", "SBP"} /\ created
                 THEN presented(hist) \cup {o} ELSE presented(hist), flows(hist))
  /\ UNCHANGED <<processedWebhooks, now, task, family, jwtToken, publicKey, verif>>

InitBot == Init /\ family = "WATA" /\ jwtToken = None

NextBot ==
  \/ \E flow \in {"buy", "gift"} : StartFlow(flow)
  \/ /\ session(hist).step = "count"
     /\ \E text \in Texts, sufficient \in BOOLEAN, o \in BotOrderIds : CountMessage(text, sufficient, o)
  \/ \E o \in BotOrderIds, created \in BOOLEAN : LinksReturn(o, created)
  \/ \E o \in BotOrderIds, choice \in PaymentChoices, created \in BOOLEAN : PayMessage(o, choice, created)

SpecBot == InitBot /\ [][NextBot]_vars

(* ------------------ the dedup key of Kassa notifications --------------- *)
MaxProcessed == 3
\* payload.id and payload.order_id are strings the code takes as they come
PaymentIds == {"n1", "n1_x", "n2"}
KeyOrderIds == {"o1", "x_o1"}

\* KassaWebhookService.processWebhook up to the claim: key, sweep, look up,
\* insert when absent
ProcessKey(id, orderId) ==
  /\ Len(hist) < MaxProcessed
  /\ LET key == webhookKey(id, orderId)
         c == claim(processedWebhooks, now, key, orderId)
     IN  /\ processedWebhooks' = c.map
         /\ hist' = Append(hist, [id |-> id, order |-> orderId, key |-> key,
                                  res |-> IF c.proceed THEN "proceed" ELSE "skip"])
  /\ UNCHANGED <<orders, usedOrderIds, now, task, family, jwtToken, publicKey, verif>>

InitKey == Init /\ family = "Kassa" /\ jwtToken = None

NextKey == \E id \in PaymentIds, o \in KeyOrderIds : ProcessKey(id, o)

SpecKey == InitKey /\ [][NextKey]_vars

(* ============================== claims ================================= *)
Delivered(t) == task[t].pc # "idle"
Tr(t) == task[t].trace
Found(t) == \E i \in 1..Len(Tr(t)) : Tr(t)[i].e = "lookup" /\ Tr(t)[i].a = "found"
Absent(t) == \E i \in 1..Len(Tr(t)) : Tr(t)[i].e = "lookup" /\ Tr(t)[i].a = "absent"
BuyCount(t) == CountEv(Tr(t), "buy")
OkCount(t) == CountEv(Tr(t), "buyOk")
NotifyCount(t) == CountEv(Tr(t), "notify")
OthersIdle(S) == \A u \in Tasks \ S : ~Delivered(u)
SameNotification(t, u) ==
  /\ task[t].p.prov = task[u].p.prov
  /\ task[t].p.id = task[u].p.id
  /\ task[t].p.order = task[u].p.order
BuyRecipients(t) == {Tr(t)[i].a : i \in {j \in 1..Len(Tr(t)) : Tr(t)[j].e = "buy"}}
SuccessRecipients(t) ==
  {Tr(t)[i].b : i \in {j \in 1..Len(Tr(t)) : Tr(t)[j].e = "notify" /\ Tr(t)[j].a = "success"}}
NotifyChats(t) == {Tr(t)[i].c : i \in {j \in 1..Len(Tr(t)) : Tr(t)[j].e = "notify"}}
Resolved(t) == {Tr(t)[i].a : i \in {j \in 1..Len(Tr(t)) : Tr(t)[j].e = "resolve"}}

\* a verified delivery for a registered order is waiting to be processed
VerifiedForRegistered(t) ==
  /\ task[t].pc = "verify"
  /\ verifyResult(task[t].p)
  /\ task[t].p.order \in DOMAIN orders
\* some delivery for the order of t has called the notifier
NotifierCalledFor(t) ==
  \E u \in Tasks : task[u].p.order = task[t].p.order /\ HasEv(Tr(u), "notify")
\* a success or failure message for the order of t has reached the requester
MessageReceivedFor(t) ==
  \E u \in Tasks : /\ task[u].p.order = task[t].p.order
                    /\ \E i \in 1..Len(Tr(u)) : Tr(u)[i].e = "notified" /\ Tr(u)[i].a = "true"

\* C1 (as stated): of the deliveries of one provider notification (same handler,
\* same notification id, same order id), at most one has a provisioning call
\* that completes successfully.
C1_AtMostOneSuccessfulProvisioning ==
  \A t, u \in Tasks :
    (t # u /\ Delivered(t) /\ Delivered(u) /\ SameNotification(t, u))
      => OkCount(t) + OkCount(u) <= 1

C3_WataProcessedOnlyIfVerified ==
  \A t \in Tasks :
    (task[t].p.prov = "WATA" /\ HasEv(Tr(t), "process"))
      => (task[t].verified = "true" /\ task[t].p.sig = "good")

\* C4 (as stated): when the provisioning call throws while a verified Paid
\* webhook for a registered order is handled, exactly one failure notification
\* is sent, the dedup claim of the webhook's key is released, the OrderIntent is
\* still retrievable, and an identical delivery that follows makes a second
\* provisioning attempt.
C4_FailureReleasesClaim ==
  \A t \in Tasks :
    (Done(t) /\ HasEv(Tr(t), "buyFail")) =>
      /\ CountEvA(Tr(t), "notify", "error") = 1
      /\ CountEvA(Tr(t), "notify", "success") = 0
      /\ OthersIdle({t}) =>
           /\ webhookKey(task[t].p.id, task[t].p.order) \notin DOMAIN processedWebhooks
           /\ getOrderInfo(orders, task[t].p.order) # NoOrder
      /\ \A u \in Tasks \ {t} :
           (Done(u) /\ t \in task[u].after /\ task[u].p = task[t].p /\ OthersIdle({t, u}))
             => BuyCount(u) = 1

C7_UnknownOrderNoEffect ==
  \A t \in Tasks : Absent(t) => (BuyCount(t) = 0 /\ NotifyCount(t) = 0)

C7_Witness ==
  \E t \in Tasks : Done(t) /\ Absent(t) /\ task[t].p.status = "Declined"

\* the recipient the rule of the claim gives for the order of delivery t
RuleRecipient(t) ==
  LET oi == task[t].oi
  IN  IF oi.isGift /\ oi.giftUsername # None THEN oi.giftUsername
      ELSE IF Resolved(t) \ {None} # {} THEN CHOOSE x \in Resolved(t) \ {None} : TRUE
      ELSE "user_" \o ToString(oi.userId)

\* C8 (as stated): on every provider path the provisioning call and the success
\* notification use the gift handle of a gift order with an explicit handle, and
\* otherwise the requester's resolved handle or the placeholder
\* user_<requester>; nothing in the webhook payload changes this.
C8_RecipientFromOrderOnly ==
  \A t \in Tasks :
    /\ BuyRecipients(t) \subseteq {RuleRecipient(t)}
    /\ SuccessRecipients(t) \subseteq {RuleRecipient(t)}

\* C8 (amended): that rule holds on the WATA and Kassa paths, and on the PayID19
\* path when the webhook description carries no recipient:<handle> token; when
\* it carries one, the PayID19 path uses that handle for the provisioning call
\* and the success notification.
C8_RecipientRule ==
  \A t \in Tasks :
    LET expected == IF task[t].p.prov = "PayID19" /\ task[t].p.desc # None
                    THEN task[t].p.desc ELSE RuleRecipient(t)
    IN  /\ BuyRecipients(t) \subseteq {expected}
        /\ SuccessRecipients(t) \subseteq {expected}

C8_Witness ==
  \E t \in Tasks :
    /\ task[t].p.prov = "PayID19" /\ task[t].p.desc = "bob"
    /\ task[t].oi.isGift /\ task[t].oi.giftUsername = "alice"
    /\ BuyRecipients(t) = {"bob"} /\ SuccessRecipients(t) = {"bob"}

\* C9: a WATA webhook with status Declined for a registered order makes no
\* provisioning call, writes exactly one DECLINED audit record, and its handler
\* completes normally (the request is answered 200).
C9_DeclinedNoProvisioning ==
  \A t \in Tasks :
    (task[t].p.status = "Declined" /\ Found(t)) =>
      /\ BuyCount(t) = 0
      /\ CountEvA(Tr(t), "audit", "DECLINED") = 1
      /\ Done(t) => task[t].http = "200"

C9_Witness ==
  \E t \in Tasks :
    /\ Done(t) /\ task[t].p.status = "Declined" /\ Found(t)
    /\ CountEvA(Tr(t), "audit", "DECLINED") = 1 /\ task[t].http = "200"

\* C10: claim(k) followed immediately by claim(k) returns (proceed, skip) when k
\* had no live record; a claim(k) that follows release(k) returns proceed; a
\* claim(k) issued more than WEBHOOK_TTL after a claim(k) that returned proceed
\* returns proceed; and every claim sweeps the expired records before its lookup.
C10_DedupSemantics ==
  /\ \A i \in 1..Len(hist) :
       (hist[i].op = "claim" /\ hist[i].fresh) => hist[i].res = "proceed"
  /\ (Len(hist) = 2 /\ hist[1].key = hist[2].key /\ hist[2].op = "claim") =>
       /\ (hist[1].op = "claim" /\ hist[1].at = hist[2].at) => hist[2].res = "skip"
       /\ hist[1].op = "release" => hist[2].res = "proceed"
       /\ (hist[1].op = "claim" /\ hist[1].res = "proceed"
             /\ hist[2].at - hist[1].at > WEBHOOK_TTL) => hist[2].res = "proceed"
  /\ (Len(hist) > 0 /\ hist[Len(hist)].op = "claim" /\ hist[Len(hist)].at = now) =>
       \A k \in DOMAIN processedWebhooks :
         ~(now - processedWebhooks[k].timestamp > WEBHOOK_TTL)

C10_Witness ==
  /\ Len(hist) = 2 /\ hist[1].key = hist[2].key
  /\ hist[1].op = "claim" /\ hist[1].res = "proceed"
  /\ hist[2].op = "claim" /\ hist[2].res = "proceed"
  /\ hist[2].at - hist[1].at > WEBHOOK_TTL

\* C11 (as stated): every outbound call eventually returning or failing, every
\* verified webhook delivered for a registered order eventually leads to the
\* requester receiving a success or a failure message.
C11_RequesterEventuallyReceives ==
  \A t \in Tasks : VerifiedForRegistered(t) ~> MessageReceivedFor(t)

\* C11 (amended): every outbound call eventually returning or failing, every
\* verified webhook delivered for a registered order eventually leads to a
\* notifier call (success or failure message) for that order; the message is
\* received unless sendMessage fails.
C11_NotifierEventuallyCalled ==
  \A t \in Tasks : VerifiedForRegistered(t) ~> NotifierCalledFor(t)

C11_Witness ==
  \E t \in Tasks :
    /\ Done(t) /\ task[t].verified = "true" /\ Found(t)
    /\ HasEv(Tr(t), "buyFail") /\ CountEvA(Tr(t), "notify", "error") = 1
    /\ \E i \in 1..Len(Tr(t)) : Tr(t)[i].e = "notified" /\ Tr(t)[i].a = "false"

\* C12 (as stated): a per-provider webhook endpoint answers with a non-200
\* status if and only if the payload fails validation (here: the signature
\* check returned false); every other outcome is acknowledged with HTTP 200.
C12_Non200IffValidationFails ==
  \A t \in Tasks :
    (Done(t) /\ task[t].p.ep # "root")
      => ((task[t].http # "200") <=> (task[t].verified = "false"))

\* C13: a delivery the Duplicate Suppressor recognises as already claimed is
\* acknowledged as success (HTTP 200) and is a no-op: no registry lookup, no
\* provisioning call, no notification, and the step that skips it leaves the
\* Order Registry unchanged.
C13_DuplicateIsNoOp ==
  /\ [](\A t \in Tasks :
          HasEv(Tr(t), "dup") =>
            /\ Done(t) /\ task[t].http = "200"
            /\ BuyCount(t) = 0 /\ NotifyCount(t) = 0
            /\ ~HasEv(Tr(t), "lookup") /\ ~HasEv(Tr(t), "remove"))
  /\ [][\A t \in Tasks :
          (~HasEv(task[t].trace, "dup") /\ HasEv(task'[t].trace, "dup"))
            => orders' = orders]_vars

C13_Witness ==
  \E t, u \in Tasks :
    /\ t # u /\ HasEv(Tr(t), "dup") /\ Done(t)
    /\ SameNotification(t, u) /\ task[u].pc = "buy"
    /\ task[t].p.order \in DOMAIN orders

\* C14: when sendMessage fails while a success or failure notification is
\* delivered, the delivery makes no provisioning call after it, no error
\* leaves the handler, and the webhook is acknowledged normally (HTTP 200).
C14_NotificationFailureOnlyLogged ==
  \A t \in Tasks :
    \A i \in 1..Len(Tr(t)) :
      (Tr(t)[i].e = "notified" /\ Tr(t)[i].a = "false") =>
        /\ \A j \in (i + 1)..Len(Tr(t)) : Tr(t)[j].e \notin {"buy", "notify", "raise"}
        /\ BuyCount(t) <= 1
        /\ Done(t) /\ task[t].http = "200"

C14_Witness ==
  \E t \in Tasks :
    /\ Done(t) /\ task[t].p.prov = "WATA" /\ task[t].http = "200"
    /\ CountEvA(Tr(t), "notify", "success") = 1
    /\ CountEvA(Tr(t), "notified", "false") = 1
    /\ BuyCount(t) = 1

\* the deliveries on the Kassa path that have entered processWebhook with key k
EnteredWithKey(k) ==
  {t \in Tasks : /\ task[t].p.prov = "Kassa" /\ HasEv(Tr(t), "process")
                  /\ webhookKey(task[t].p.id, task[t].p.order) = k}

C16_FirstProcessedWins ==
  /\ [][\A t, u \in Tasks :
          (/\ t # u /\ task[u].p.order = task'[t].p.order
           /\ HasEv(task[u].trace, "buyOk") /\ HasEv(task[u].trace, "remove")
           /\ ~HasEv(task[t].trace, "lookup") /\ HasEv(task'[t].trace, "lookup"))
            => /\ task'[t].pc = "done"
               /\ CountEvA(task'[t].trace, "lookup", "absent") = 1
               /\ CountEv(task'[t].trace, "buy") = 0]_vars
  /\ [](\A t \in Tasks : (Done(t) /\ Absent(t)) => BuyCount(t) = 0)

C16_Witness ==
  \E t, u \in Tasks :
    /\ t # u /\ task[t].p.order = task[u].p.order
    /\ task[u].p.prov = "WATA" /\ task[t].p.prov = "Kassa"
    /\ Done(u) /\ HasEv(Tr(u), "buyOk") /\ HasEv(Tr(u), "remove")
    /\ u \in task[t].after /\ Done(t) /\ Absent(t) /\ BuyCount(t) = 0

\* C17: a registered OrderIntent stays retrievable, unchanged, until a webhook
\* handler removes it: no step other than the end of a handler that provisioned
\* successfully, or that handled a Declined notification, takes it out of the
\* registry; neither the passage of time nor a failed provisioning does.
C17_IntentKeptUntilTerminal ==
  /\ [][\A o \in DOMAIN orders :
          \/ o \in DOMAIN orders' /\ orders'[o] = orders[o]
          \/ \E t \in Tasks :
               /\ task[t].pc = "notify" /\ task'[t].pc = "done" /\ task[t].p.order = o
               /\ \/ HasEv(task[t].trace, "buyOk")
                  \/ task[t].p.status = "Declined" /\ ~HasEv(task[t].trace, "buy")]_vars
  /\ [](\A o \in usedOrderIds :
          \/ o \in DOMAIN orders
          \/ \E t \in Tasks : task[t].p.order = o /\ HasEv(Tr(t), "remove"))

C17_Witness ==
  \E t \in Tasks :
    /\ Done(t) /\ HasEv(Tr(t), "buyFail") /\ now > WEBHOOK_TTL
    /\ task[t].p.order \in DOMAIN orders
    /\ orders[task[t].p.order] = task[t].oi

\* C18: removeOrderInfo is idempotent: it deletes the given identifier and
\* changes no other entry, it leaves the registry as it is when the identifier
\* is absent, and removing the same identifier twice in a row leaves the
\* registry as removing it once did.
C18_RemoveIdempotent ==
  /\ \A i \in 1..Len(hist) :
       hist[i].op = "remove" =>
         /\ hist[i].key \notin DOMAIN hist[i].after
         /\ DOMAIN hist[i].after = DOMAIN hist[i].before \ {hist[i].key}
         /\ \A k \in DOMAIN hist[i].after : hist[i].after[k] = hist[i].before[k]
         /\ hist[i].key \notin DOMAIN hist[i].before => hist[i].after = hist[i].before
  /\ (Len(hist) = 2 /\ hist[1].op = "remove" /\ hist[2].op = "remove"
        /\ hist[1].key = hist[2].key) => hist[2].after = hist[1].after

C18_Witness ==
  /\ Len(hist) = 2 /\ hist[1].op = "remove" /\ hist[2].op = "remove"
  /\ hist[1].key = hist[2].key
  /\ hist[1].key \in DOMAIN hist[1].before
  /\ Cardinality(DOMAIN hist[1].before) = 3
  /\ orders = hist[1].after /\ Cardinality(DOMAIN orders) = 2

\* C19 (as stated): in every provider webhook handler each provisioning call is
\* preceded within the same delivery by, in this order, a successful signature
\* verification, a successful Duplicate Suppressor claim and a successful
\* OrderIntent lookup; a delivery that provisions notifies the requester only
\* after the provisioning call has returned or failed.
C19_VerifyClaimLookupBeforeProvisioning ==
  \A t \in Tasks :
    /\ \A i \in 1..Len(Tr(t)) :
         Tr(t)[i].e = "buy" =>
           \E a, b, c \in 1..i :
             /\ a < b /\ b < c /\ c < i
             /\ Tr(t)[a].e = "verify" /\ Tr(t)[a].a = "true"
             /\ Tr(t)[b].e = "claim"
             /\ Tr(t)[c].e = "lookup" /\ Tr(t)[c].a = "found"
    /\ \A j \in 1..Len(Tr(t)) :
         (Tr(t)[j].e = "notify" /\ BuyCount(t) > 0) =>
           \E k \in 1..j : k < j /\ Tr(t)[k].e \in {"buyOk", "buyFail"}

\* C20: two verified notifications for one order that carry different
\* notification identifiers and both arrive before either has completed do not
\* block each other at the dedup check: each is skipped only if a delivery of
\* its own notification has claimed its key, and when both find the order both
\* make a provisioning call. The witness is the double provisioning itself.
C20_DifferentIdsBothProvision ==
  \A t, u \in Tasks :
    (/\ t # u /\ task[t].p.prov = "Kassa" /\ task[u].p.prov = "Kassa"
     /\ task[t].p.order = task[u].p.order /\ task[t].p.id # task[u].p.id
     /\ task[t].verified = "true" /\ task[u].verified = "true"
     /\ t \notin task[u].after /\ u \notin task[t].after)
      => /\ HasEv(Tr(t), "dup") =>
              \E w \in Tasks \ {t} : SameNotification(w, t) /\ HasEv(Tr(w), "claim")
         /\ (Found(t) /\ Found(u) /\ task[t].pc # "resolve" /\ task[u].pc # "resolve")
              => (BuyCount(t) = 1 /\ BuyCount(u) = 1)

C20_Witness ==
  \E t, u \in Tasks :
    /\ t # u /\ task[t].p.prov = "Kassa" /\ task[u].p.prov = "Kassa"
    /\ task[t].p.order = task[u].p.order /\ task[t].p.id # task[u].p.id
    /\ task[t].verified = "true" /\ task[u].verified = "true"
    /\ HasEv(Tr(t), "claim") /\ HasEv(Tr(u), "claim")
    /\ task[t].pc = "buy" /\ task[u].pc = "buy"
    /\ BuyCount(t) = 1 /\ BuyCount(u) = 1

\* C21 (as stated): every delivery whose provisioning call failed has written
\* a failure audit record carrying the payment's id and order id, and has
\* written no success audit record.
C21_FailureAudited ==
  \A t \in Tasks :
    (Done(t) /\ HasEv(Tr(t), "buyFail")) =>
      /\ \E i \in 1..Len(Tr(t)) :
           /\ Tr(t)[i].e = "audit"
           /\ Tr(t)[i].a \in {"PROCESSING_ERROR", "WEBHOOK_FAILED"}
           /\ Tr(t)[i].c = task[t].p.order
      /\ ~ \E i \in 1..Len(Tr(t)) :
             Tr(t)[i].e = "audit" /\ Tr(t)[i].a \in {"PAID", "WEBHOOK_SUCCESS"}

\* C22: one delivery calls buyStars at most once and buyStars sends at most
\* one order request; once the purchase has failed the handler is at the
\* failure notification or has ended, the failure notification is the only
\* notifier call, and nothing after the failure authenticates, calls buyStars
\* or sends an order request again.
C22_NoRetryAfterFailure ==
  \A t \in Tasks :
    /\ BuyCount(t) <= 1
    /\ CountEv(Tr(t), "post") <= 1
    /\ HasEv(Tr(t), "buyFail") =>
         /\ task[t].pc \in {"notify", "done"}
         /\ CountEv(Tr(t), "buyFail") = 1
         /\ CountEvA(Tr(t), "notify", "error") = 1
         /\ CountEvA(Tr(t), "notify", "success") = 0
         /\ \A i, j \in 1..Len(Tr(t)) :
              (Tr(t)[i].e = "buyFail" /\ j > i)
                => Tr(t)[j].e \notin {"auth", "buy", "post", "buyOk"}

C22_Witness ==
  \E t \in Tasks :
    /\ Done(t) /\ CountEvA(Tr(t), "buyFail", "401") = 1
    /\ CountEv(Tr(t), "post") = 1 /\ BuyCount(t) = 1

\* C29: the step in which the order request of buyStars is answered 401
\* leaves the cached token and the Order Registry as they are and takes the
\* handler to its failure notification; a delivery ended that way has sent one
\* order request, has not authenticated after it, has called the notifier once,
\* with the failure message, has not deleted its order, and with no other
\* delivery around the order is still in the registry.
C29_Unauthorized401IsFailure ==
  /\ [][\A t \in Tasks :
          (task[t].pc = "buy" /\ HasEv(task'[t].trace, "buyFail"))
            => /\ jwtToken' = jwtToken /\ jwtToken # None
               /\ orders' = orders
               /\ task'[t].pc = "notify"
               /\ task'[t].trace[Len(task'[t].trace)] = Notify("error", task[t].oi, None)]_vars
  /\ [](\A t \in Tasks :
          (Done(t) /\ CountEvA(Tr(t), "buyFail", "401") = 1) =>
            /\ CountEv(Tr(t), "post") = 1
            /\ CountEv(Tr(t), "auth") <= 1
            /\ \A i, j \in 1..Len(Tr(t)) :
                 (Tr(t)[i].e = "post" /\ j > i) => Tr(t)[j].e \notin {"auth", "post"}
            /\ NotifyCount(t) = 1 /\ CountEvA(Tr(t), "notify", "error") = 1
            /\ ~HasEv(Tr(t), "remove")
            /\ OthersIdle({t}) => getOrderInfo(orders, task[t].p.order) = task[t].oi)

C29_Witness ==
  \E t \in Tasks :
    /\ Done(t) /\ CountEvA(Tr(t), "buyFail", "401") = 1
    /\ HasEv(Tr(t), "auth") /\ jwtToken = "acquired"
    /\ getOrderInfo(orders, task[t].p.order) = task[t].oi

\* C23: the step in which the verification of a delivery returns leaves the
\* Order Registry unchanged; when the verification returned false it leaves the
\* Duplicate Suppressor unchanged too, and when it returned true the suppressor
\* changes only by the claim that processWebhook makes in the same step on the
\* Kassa path.
C23_VerifiersLeaveStores ==
  [][\A t \in Tasks :
       (task[t].pc = "verify" /\ task'[t].pc # "verify") =>
         LET p == task[t].p
             entered == task'[t].p.prov = "Kassa" /\ HasEv(task'[t].trace, "process")
         IN  /\ orders' = orders
             /\ task'[t].verified = Bool(verifyResult(p))
             /\ task'[t].verified = "false" => processedWebhooks' = processedWebhooks
             /\ ~entered => processedWebhooks' = processedWebhooks
             /\ entered => processedWebhooks' =
                             claim(processedWebhooks, now, webhookKey(p.id, p.order), p.order).map]_vars

C23_Witness ==
  \E t \in Tasks :
    /\ Done(t) /\ task[t].verified = "false" /\ HasEv(Tr(t), "reject")
    /\ task[t].p.prov = "Kassa"
    /\ getOrderInfo(orders, task[t].p.order) # NoOrder

\* C27: a PayID19 request that entered processWebhook on the PayID19 endpoint
\* either carried the configured private key and was validated, or had the test
\* flag set to 1, or lacked private_key or order_id; one that entered it on the
\* root path carried the configured private key and was validated, and a root
\* request with another private key ends with HTTP 400 without entering it.
C27_PassthroughIsExplicit ==
  \A t \in Tasks :
    (task[t].p.prov = "PayID19" /\ task[t].pc \notin {"idle", "verify"}) =>
      LET q == task[t].p
          matches == q.sig = "good"
          passthrough == q.test = 1 \/ "private_key" \notin q.fields
                           \/ "order_id" \notin q.fields
      IN  /\ (q.ep = "main" /\ HasEv(Tr(t), "process"))
               => \/ matches /\ task[t].verified = "true"
                  \/ passthrough /\ task[t].verified = "none"
          /\ (q.ep = "main" /\ ~matches /\ ~passthrough)
               => /\ Tr(t) = <<Ev("verify", "false", "", ""), Ev("reject", "", "", "")>>
                  /\ task[t].http = "400"
          /\ (q.ep = "root" /\ HasEv(Tr(t), "process"))
               => matches /\ task[t].verified = "true"
          /\ (q.ep = "root" /\ ~matches)
               => /\ Tr(t) = <<Ev("verify", "false", "", ""), Ev("reject", "", "", "")>>
                  /\ task[t].http = "400"

C27_Witness ==
  \E t, u \in Tasks :
    /\ task[t].p.prov = "PayID19" /\ task[t].p.ep = "root" /\ task[t].p.test = 1
    /\ task[t].p.sig = "bad" /\ Done(t) /\ task[t].http = "400"
    /\ task[u].p.prov = "PayID19" /\ task[u].p.ep = "main"
    /\ "private_key" \notin task[u].p.fields /\ BuyCount(u) = 1
    /\ task[u].verified = "none"

\* C28: a body posted to the root path is handled by the WATA handler when it
\* has the three WATA fields, by the PayID19 handler when it does not and has
\* the four PayID19 fields, and otherwise is answered HTTP 200 in the step that
\* receives it, which calls neither buyStars nor the notifier and leaves the
\* Order Registry and the Duplicate Suppressor unchanged.
C28_RootDispatch ==
  /\ [](\A t \in Tasks :
          (Delivered(t) /\ task[t].p.ep = "root") =>
            LET q == task[t].p
                isWata == WataFields \subseteq q.fields
                isPayID19 == PayID19Fields \subseteq q.fields
            IN  /\ isWata => q.prov = "WATA"
                /\ (~isWata /\ isPayID19) => q.prov = "PayID19"
                /\ (~isWata /\ ~isPayID19)
                     => /\ q.prov = "none" /\ Done(t) /\ task[t].http = "200"
                        /\ Tr(t) = <<Ev("unknown", "", "", "")>>
                /\ HasEv(Tr(t), "buy") => showSender(q.prov) = ~isWata)
  /\ [][\A t \in Tasks :
          (~Delivered(t) /\ Delivered(t)' /\ task'[t].p.ep = "root"
             /\ ~(WataFields \subseteq task'[t].p.fields)
             /\ ~(PayID19Fields \subseteq task'[t].p.fields))
            => /\ orders' = orders /\ processedWebhooks' = processedWebhooks
               /\ Done(t)']_vars

C28_Witness ==
  \E t, u \in Tasks :
    /\ task[t].p.ep = "root" /\ task[t].p.prov = "none" /\ Done(t)
    /\ "order_id" \in task[t].p.fields
    /\ getOrderInfo(orders, task[t].p.order) # NoOrder
    /\ task[u].p.ep = "root" /\ PayID19Fields \subseteq task[u].p.fields
    /\ task[u].p.prov = "WATA" /\ BuyCount(u) = 1

\* C24: a verifySignature call with a missing signature has ended in the step
\* that started it, with false, having neither requested nor used a public
\* key; no call ends by throwing: one whose key text could not be loaded and
\* one whose signature the RSA primitive cannot process end with false.
C24_MissingSignatureIsFalse ==
  \A c \in Calls :
    /\ (verif[c].pc # "idle" /\ verif[c].sig = "") =>
         /\ verif[c].pc = "done" /\ verif[c].result = "false"
         /\ ~verif[c].fetched /\ verif[c].used = None
    /\ verif[c].pc = "done" =>
         /\ verif[c].result \in {"true", "false"}
         /\ verif[c].sig = "malformed" => verif[c].result = "false"
         /\ (verif[c].fetched /\ verif[c].used = None) => verif[c].result = "false"
         /\ verif[c].result = "true" => verif[c].used = verif[c].sig

C24_Witness ==
  \E c, d, e \in Calls :
    /\ verif[c].pc = "done" /\ verif[c].sig = "" /\ publicKey = None
    /\ verif[d].pc = "done" /\ verif[d].fetched /\ verif[d].used = None
    /\ verif[d].sig = "api"
    /\ verif[e].pc = "fetch" /\ verif[e].sig = "malformed"

\* C25 (as stated): a verification that starts while no key is cached requests
\* the key from the endpoint, and uses the hardcoded key when the request
\* failed; one that starts once a key is cached requests nothing, and every
\* verification uses the key that was cached first.
C25_KeyCachedForLifetime ==
  \A c \in Calls :
    /\ (verif[c].pc # "idle" /\ verif[c].sig # "")
         => verif[c].fetched = (verif[c].seen = None)
    /\ verif[c].used # None => verif[c].used = hist[1]

\* C26: when one of id, order_id, project_id, amount, currency and sign is
\* missing from the body (it is absent, or holds the empty string or zero),
\* verifyWebhookSignature returns false and has computed no digest; otherwise
\* it has computed one and returns true exactly when sign spells, in lower or
\* upper case, the SHA-256 digest of apiKey + id + order_id + project_id +
\* the amount in two decimals + currency (10 as "10.00", 10.5 as "10.50").
C26_KassaSignature ==
  \A i \in 1..Len(hist) :
    LET b == hist[i].body
        res == hist[i].res
        missing == \/ b.id \in {None, ""} \/ b.order_id \in {None, ""}
                   \/ b.project_id \in {NoNumber, 0} \/ b.amount \in {NoNumber, 0}
                   \/ b.currency \in {None, ""}
                   \/ (b.sign.case # "number" /\ b.sign.text \in {None, ""})
    IN  /\ missing => (~res.valid /\ ~res.hashed)
        /\ ~missing =>
             /\ res.hashed
             /\ res.valid <=> /\ b.sign.case \in {"lower", "upper"}
                              /\ b.sign.text = ProviderString(b)

C26_Witness ==
  /\ Len(hist) = 1
  /\ hist[1].kind = "upper" /\ hist[1].body.amount = 10000
  /\ hist[1].res.valid /\ hist[1].res.hashed

\* C30 (as stated): every order in the Order Registry has a quantity that is
\* a whole number, positive and not smaller than MIN_STARS.
C30_QuantityIsWholeAndAtLeastMin ==
  \A o \in DOMAIN orders :
    /\ orders[o].count % Unit = 0
    /\ orders[o].count > 0
    /\ orders[o].count >= MIN_STARS * Unit

\* C32 (as stated): once a provisioning call of a delivery for an order has
\* returned successfully, no step starts a provisioning call of another
\* delivery for that order.
C32_NoProvisioningAfterSuccess ==
  [][\A t, u \in Tasks :
       (t # u /\ HasEv(task[t].trace, "buyOk") /\ task'[u].p.order = task[t].p.order)
         => CountEv(task'[u].trace, "buy") = CountEv(task[u].trace, "buy")]_vars

\* C33 (as stated): a delivery calls the notifier with the success message, or
\* deletes its order after a provisioning call, only if the response of that
\* call held success = true; a delivery whose response held success = false
\* calls the notifier with the failure message and deletes nothing.
C33_SuccessFieldDecides ==
  \A t \in Tasks :
    /\ (CountEvA(Tr(t), "notify", "success") > 0 \/ (HasEv(Tr(t), "buy") /\ HasEv(Tr(t), "remove")))
         => CountEvA(Tr(t), "buyOk", "true") = 1
    /\ (Done(t) /\ CountEvA(Tr(t), "buyOk", "false") > 0)
         => /\ CountEvA(Tr(t), "notify", "error") = 1
            /\ ~HasEv(Tr(t), "remove")

\* C36: a delivery calls the notifier with the failure message after a
\* provisioning call only if that call failed; a delivery whose provisioning
\* call returned calls it with the success message only, and, whether or not
\* sendMessage then fails inside the notifier, ends with HTTP 200 in a step
\* after which its order is no longer in the Order Registry.
C36_NoFailureAfterSuccess ==
  /\ [](\A t \in Tasks :
          /\ (HasEv(Tr(t), "buy") /\ CountEvA(Tr(t), "notify", "error") > 0)
               => (HasEv(Tr(t), "buyFail") /\ ~HasEv(Tr(t), "buyOk"))
          /\ HasEv(Tr(t), "buyOk") =>
               /\ CountEvA(Tr(t), "notify", "error") = 0
               /\ CountEvA(Tr(t), "notify", "success") = 1
               /\ ~HasEv(Tr(t), "raise")
               /\ Done(t) => (HasEv(Tr(t), "remove") /\ task[t].http = "200"))
  /\ [][\A t \in Tasks :
          (HasEv(task[t].trace, "buyOk") /\ ~Done(t) /\ Done(t)')
            => getOrderInfo(orders', task[t].p.order) = NoOrder]_vars

C36_Witness ==
  \E t \in Tasks :
    /\ Done(t) /\ HasEv(Tr(t), "buyOk") /\ task[t].p.prov = "Kassa"
    /\ CountEvA(Tr(t), "notified", "false") = 1
    /\ getOrderInfo(orders, task[t].p.order) = NoOrder

\* C35 (as stated): a PayID19 delivery that entered processWebhook without the
\* private-key comparison calls neither buyStars nor removeOrderInfo.
C35_PassthroughNeverProvisions ==
  \A t \in Tasks :
    (task[t].p.prov = "PayID19" /\ HasEv(Tr(t), "process") /\ task[t].verified = "none")
      => (BuyCount(t) = 0 /\ ~HasEv(Tr(t), "post") /\ ~HasEv(Tr(t), "remove"))

\* C37: every record of the Duplicate Suppressor was inserted by a Kassa
\* delivery whose signature verification had returned true; a step changes
\* the suppressor only when it ends such a verification; a delivery refused by
\* the verification has claimed nothing, and a delivery is skipped as a
\* duplicate only when another verified delivery has claimed the same key.
C37_ClaimOnlyAfterVerification ==
  /\ [](\A k \in DOMAIN processedWebhooks :
          \E t \in Tasks :
            /\ task[t].p.prov = "Kassa" /\ task[t].verified = "true" /\ task[t].p.sig = "good"
            /\ CountEvA(Tr(t), "claim", k) = 1)
  /\ [](\A t \in Tasks :
          /\ (task[t].verified # "true" \/ task[t].p.sig # "good") => ~HasEv(Tr(t), "claim")
          /\ HasEv(Tr(t), "dup") =>
               \E u \in Tasks \ {t} :
                 /\ task[u].verified = "true" /\ task[u].p.sig = "good"
                 /\ CountEvA(Tr(u), "claim", webhookKey(task[t].p.id, task[t].p.order)) = 1)
  /\ [][processedWebhooks' # processedWebhooks =>
          \E t \in Tasks :
            /\ task[t].pc = "verify" /\ task'[t].pc # "verify"
            /\ task'[t].p.prov = "Kassa" /\ task'[t].verified = "true"]_vars

C37_Witness ==
  \E t, u \in Tasks :
    /\ task[t].p.prov = "Kassa" /\ task[t].p.sig = "bad" /\ Done(t)
    /\ HasEv(Tr(t), "reject") /\ u \notin task[t].after
    /\ task[u].p.prov = "Kassa" /\ task[u].p.sig = "good" /\ t \in task[u].after
    /\ task[u].p.id = task[t].p.id /\ task[u].p.order = task[t].p.order
    /\ HasEv(Tr(u), "claim") /\ BuyCount(u) = 1

\* C34: when the verification of a Paid delivery ends with true for an order
\* that was registered, while every other delivery of the order has been
\* processed to its end after the registration and none of them provisioned
\* it, the delivery finds
\* the order and goes on to the provisioning attempt, whatever Declined or
\* failed deliveries those were.
C34_PaidReachesProvisioning ==
  [][\A t \in Tasks :
       ( /\ task[t].pc = "verify" /\ task'[t].pc # "verify"
         /\ verifyResult(task[t].p) /\ task[t].p.status = "Paid"
         /\ task[t].p.order \in usedOrderIds
         /\ \A u \in Tasks \ {t} :
              task[u].p.order = task[t].p.order
                => (Done(u) /\ Found(u) /\ ~HasEv(Tr(u), "buyOk")) )
       => /\ CountEvA(task'[t].trace, "lookup", "found") = 1
          /\ task'[t].pc \in {"resolve", "auth", "buy"}]_vars

\* C38: while a delivery that claimed key k has not finished, k is claimed in
\* the Duplicate Suppressor, and no step removes the record of a key whose
\* claimant is still being processed.
C38_ClaimHeldUntilCompletion ==
  /\ [](\A t \in Tasks : \A k \in {webhookKey(task[t].p.id, task[t].p.order)} :
          (CountEvA(Tr(t), "claim", k) = 1 /\ ~Done(t)) => k \in DOMAIN processedWebhooks)
  /\ [][\A k \in DOMAIN processedWebhooks :
          (\E t \in Tasks : CountEvA(Tr(t), "claim", k) = 1 /\ ~Done(t) /\ task'[t] = task[t])
            => k \in DOMAIN processedWebhooks']_vars

\* C39: two processed notifications with the same dedup key have the same
\* payment id and the same order id, and a notification is skipped as a
\* duplicate only when a notification with the same payment id and order id
\* was let through before it.
C39_KeyInjective ==
  /\ \A i, j \in 1..Len(hist) :
       hist[i].key = hist[j].key => (hist[i].id = hist[j].id /\ hist[i].order = hist[j].order)
  /\ \A j \in 1..Len(hist) :
       hist[j].res = "skip" =>
         \E i \in 1..(j - 1) :
           /\ hist[i].res = "proceed"
           /\ hist[i].id = hist[j].id /\ hist[i].order = hist[j].order

\* C31 (as stated): every order of the Order Registry either had a payment
\* option presented to the requester or has its payment links still being
\* created; once the creation of the links has failed, or the chosen payment
\* method was not recognised, the registry holds no order for the identifier.
C31_RegisteredIffPresented ==
  /\ \A o \in DOMAIN orders : o \in presented(hist) \cup pending(hist)
  /\ \A o \in presented(hist) : o \in usedOrderIds
==============================================================================
